---- MODULE Spec2Model ----
(***************************************************************************)
(* A model of the request/response formatting core of llm-debug-proxy     *)
(* (src/src/formatters.ts).  Text is a sequence of one-character strings, *)
(* so that split, trim, startsWith, slice and JSON.parse are computed     *)
(* character by character as the JavaScript runtime computes them.        *)
(***************************************************************************)
EXTENDS Integers, Sequences, FiniteSets, TLC

VARIABLES res, allResponseChunks, requestData, parsedChunks, cliOptions, pc, ret,
          argv, wire, crashed

vars == <<res, allResponseChunks, requestData, parsedChunks, cliOptions, pc, ret,
          argv, wire, crashed>>

\* The element of a one-element set.  { e(x) : x \in {v} } computes v once.
The(S) == CHOOSE x \in S : TRUE

(***************************************************************************)
(* Text literals of the source, spelled as character sequences.           *)
(***************************************************************************)
\* 'message'
S_message ==
  <<"m", "e", "s", "s", "a", "g", "e">>
\* 'content'
S_content ==
  <<"c", "o", "n", "t", "e", "n", "t">>
\* 'object'
S_object ==
  <<"o", "b", "j", "e", "c", "t">>
\* 'choices'
S_choices ==
  <<"c", "h", "o", "i", "c", "e", "s">>
\* 'delta'
S_delta ==
  <<"d", "e", "l", "t", "a">>
\* 'tool_calls'
S_tool_calls ==
  <<"t", "o", "o", "l", "_", "c", "a", "l", "l", "s">>
\* 'index'
S_index ==
  <<"i", "n", "d", "e", "x">>
\* 'function'
S_function ==
  <<"f", "u", "n", "c", "t", "i", "o", "n">>
\* 'name'
S_name ==
  <<"n", "a", "m", "e">>
\* 'arguments'
S_arguments ==
  <<"a", "r", "g", "u", "m", "e", "n", "t", "s">>
\* 'id'
S_id ==
  <<"i", "d">>
\* 'chat.completion.chunk'
S_chunkObject ==
  <<"c", "h", "a", "t", ".", "c", "o", "m", "p", "l", "e", "t", "i", "o", "n", ".", "c", "h",
    "u", "n", "k">>
\* 'data:'
S_dataPrefix ==
  <<"d", "a", "t", "a", ":">>
\* 'data: [DONE]'
S_doneSentinel ==
  <<"d", "a", "t", "a", ":", " ", "[", "D", "O", "N", "E", "]">>
\* 'true'
S_true ==
  <<"t", "r", "u", "e">>
\* 'false'
S_false ==
  <<"f", "a", "l", "s", "e">>
\* 'null'
S_null ==
  <<"n", "u", "l", "l">>
\* 'undefined'
S_undefined ==
  <<"u", "n", "d", "e", "f", "i", "n", "e", "d">>
\* 'Infinity'
S_Infinity ==
  <<"I", "n", "f", "i", "n", "i", "t", "y">>
\* '[object Object]'
S_objectObject ==
  <<"[", "o", "b", "j", "e", "c", "t", " ", "O", "b", "j", "e", "c", "t", "]">>

(***************************************************************************)
(* JavaScript values.  Every value is a record of the same shape: a type  *)
(* tag t, a character sequence s (the characters of a string, the         *)
(* spelling of a number, the key of an object member) and the sequence    *)
(* kids (array elements, object members in insertion order).              *)
(***************************************************************************)
JUndefined == [t |-> "undefined", s |-> <<>>, kids |-> <<>>]

JNull == [t |-> "null", s |-> <<>>, kids |-> <<>>]

JBool(b) == [t |-> "boolean", s |-> IF b THEN S_true ELSE S_false, kids |-> <<>>]

JNum(chars) == [t |-> "number", s |-> chars, kids |-> <<>>]

JStr(chars) == [t |-> "string", s |-> chars, kids |-> <<>>]

JArr(elems) == [t |-> "array", s |-> <<>>, kids |-> elems]

JObj(members) == [t |-> "object", s |-> <<>>, kids |-> members]

Member(key, v) == [t |-> "member", s |-> key, kids |-> <<v>>]

IsNullish(v) == v.t \in {"undefined", "null"}

\* Assignment obj[key] = v: an existing key keeps its position, a new key is appended.
ObjSet(members, key, v) ==
  IF \E n \in 1..Len(members) : members[n].s = key
  THEN [n \in 1..Len(members) |-> IF members[n].s = key THEN Member(key, v) ELSE members[n]]
  ELSE Append(members, Member(key, v))

\* Property read v[key] of a non-nullish value, for a key that is not an array index.
Get(v, key) ==
  IF v.t = "object" /\ \E n \in 1..Len(v.kids) : v.kids[n].s = key
  THEN v.kids[CHOOSE n \in 1..Len(v.kids) : v.kids[n].s = key].kids[1]
  ELSE JUndefined

\* Property read v[0] of a non-nullish value.
GetFirst(v) ==
  IF v.t = "array" /\ Len(v.kids) >= 1 THEN v.kids[1]
  ELSE IF v.t = "string" /\ Len(v.s) >= 1 THEN JStr(<<v.s[1]>>)
  ELSE JUndefined

\* String(n) of a number value.
NumberToString(n) == IF n.s = <<"-", "0">> THEN <<"0">> ELSE n.s

IsFiniteNumber(n) == n.s # S_Infinity /\ n.s # <<"-">> \o S_Infinity

\* ToBoolean.
Truthy(v) ==
  CASE v.t \in {"undefined", "null"} -> FALSE
    [] v.t = "boolean" -> v.s = S_true
    [] v.t = "number" -> NumberToString(v) # <<"0">>
    [] v.t = "string" -> v.s # <<>>
    [] OTHER -> TRUE

(***************************************************************************)
(* JSON.parse: a recursive-descent parser over the characters of the      *)
(* text.  A result is [ok, v, i]: whether a value was read, the value,    *)
(* and the position after it.                                              *)
(***************************************************************************)
JsonWhitespace == {" ", "\t", "\n", "\r"}

Digit == {"0", "1", "2", "3", "4", "5", "6", "7", "8", "9"}

ParseFail == [ok |-> FALSE, v |-> JUndefined, i |-> 0]

ParseOk(v, i) == [ok |-> TRUE, v |-> v, i |-> i]

At(txt, i, chars) == i >= 1 /\ i <= Len(txt) /\ txt[i] \in chars

\* The first position from i on that holds one of chars, or 0 when there is none.
FirstOf(txt, i, chars) ==
  LET at == {k \in i..Len(txt) : txt[k] \in chars}
  IN  IF at = {} THEN 0 ELSE CHOOSE k \in at : \A j \in at : k <= j

Matches(txt, i, lit) == i + Len(lit) - 1 <= Len(txt) /\ SubSeq(txt, i, i + Len(lit) - 1) = lit

RECURSIVE SkipWhitespace(_, _)
SkipWhitespace(txt, i) ==
  IF At(txt, i, JsonWhitespace) THEN SkipWhitespace(txt, i + 1) ELSE i

RECURSIVE DigitsEnd(_, _)
DigitsEnd(txt, i) == IF At(txt, i, Digit) THEN DigitsEnd(txt, i + 1) ELSE i

RECURSIVE StripTrailingZeros(_)
StripTrailingZeros(ds) ==
  IF ds # <<>> /\ ds[Len(ds)] = "0" THEN StripTrailingZeros(SubSeq(ds, 1, Len(ds) - 1)) ELSE ds

RECURSIVE StripLeadingZeros(_)
StripLeadingZeros(ds) ==
  IF ds # <<>> /\ ds[1] = "0" THEN StripLeadingZeros(Tail(ds)) ELSE ds

DigitValue(c) == CHOOSE n \in 0..9 : <<"0", "1", "2", "3", "4", "5", "6", "7", "8", "9">>[n + 1] = c

RECURSIVE NatOfDigits(_)
NatOfDigits(ds) ==
  IF ds = <<>> THEN 0
  ELSE 10 * NatOfDigits(SubSeq(ds, 1, Len(ds) - 1)) + DigitValue(ds[Len(ds)])

\* The number a literal denotes, as the spelling String() gives it.  order is the
\* decimal order of magnitude of the literal: a literal of order 309 or more is beyond
\* the largest double and denotes Infinity, one of order -325 or less denotes zero.
\* A literal in range that has an exponent keeps its scientific spelling.
NumberValue(neg, int, frac, hasExp, expNeg, exp) ==
  LET sign == IF neg THEN <<"-">> ELSE <<>>
      in == StripLeadingZeros(int)
      fr == StripTrailingZeros(frac)
      ex == StripLeadingZeros(exp)
      e == IF Len(ex) > 4 THEN 99999 ELSE NatOfDigits(ex)
      order == (IF in # <<>> THEN Len(in) - 1 ELSE Len(StripLeadingZeros(fr)) - Len(fr) - 1)
               + (IF expNeg THEN 0 - e ELSE e)
      plain == int \o (IF fr = <<>> THEN <<>> ELSE <<".">> \o fr)
  IN  IF (in = <<>> /\ fr = <<>>) \/ order <= 0 - 325 THEN sign \o <<"0">>
      ELSE IF order >= 309 THEN sign \o S_Infinity
      ELSE IF e = 0 THEN sign \o plain
      ELSE sign \o plain \o <<"e">> \o (IF expNeg THEN <<"-">> ELSE <<>>) \o ex

ParseNumber(txt, i) ==
  LET neg == At(txt, i, {"-"})
      a == IF neg THEN i + 1 ELSE i
      b == IF At(txt, a, {"0"}) THEN a + 1 ELSE DigitsEnd(txt, a)
      hasFrac == At(txt, b, {"."})
      c == IF hasFrac THEN DigitsEnd(txt, b + 1) ELSE b
      hasExp == At(txt, c, {"e", "E"})
      hasSign == hasExp /\ At(txt, c + 1, {"+", "-"})
      d == IF hasSign THEN c + 2 ELSE c + 1
      e == IF hasExp THEN DigitsEnd(txt, d) ELSE c
  IN  IF b = a \/ (hasFrac /\ c = b + 1) \/ (hasExp /\ e = d) THEN ParseFail
      ELSE ParseOk(JNum(NumberValue(neg, SubSeq(txt, a, b - 1),
                                    IF hasFrac THEN SubSeq(txt, b + 1, c - 1) ELSE <<>>,
                                    hasExp, hasSign /\ txt[c + 1] = "-",
                                    IF hasExp THEN SubSeq(txt, d, e - 1) ELSE <<>>)), e)

ParseLiteral(txt, i) ==
  IF Matches(txt, i, S_true) THEN ParseOk(JBool(TRUE), i + Len(S_true))
  ELSE IF Matches(txt, i, S_false) THEN ParseOk(JBool(FALSE), i + Len(S_false))
  ELSE IF Matches(txt, i, S_null) THEN ParseOk(JNull, i + Len(S_null))
  ELSE ParseFail

\* The characters after an opening quote up to the closing quote.  A raw control
\* character ends the parse; of the escapes, \" \\ \/ \n \r \t are read.
RECURSIVE ScanString(_, _, _)
ScanString(txt, i, acc) ==
  LET k == FirstOf(txt, i, {"\"", "\\", "\n", "\r", "\t"})
      run == acc \o SubSeq(txt, i, k - 1)
  IN  IF k = 0 \/ txt[k] \in {"\n", "\r", "\t"} THEN ParseFail
      ELSE IF txt[k] = "\"" THEN ParseOk(JStr(run), k + 1)
      ELSE IF At(txt, k + 1, {"\"", "\\", "/"}) THEN ScanString(txt, k + 2, Append(run, txt[k + 1]))
      ELSE IF At(txt, k + 1, {"n"}) THEN ScanString(txt, k + 2, Append(run, "\n"))
      ELSE IF At(txt, k + 1, {"r"}) THEN ScanString(txt, k + 2, Append(run, "\r"))
      ELSE IF At(txt, k + 1, {"t"}) THEN ScanString(txt, k + 2, Append(run, "\t"))
      ELSE ParseFail

RECURSIVE ParseValue(_, _), ParseMembers(_, _, _), ParseElements(_, _, _)
ParseValue(txt, i0) ==
  LET i == SkipWhitespace(txt, i0)
      j == SkipWhitespace(txt, i + 1)
  IN  IF i > Len(txt) THEN ParseFail
      ELSE IF txt[i] = "{"
        THEN IF At(txt, j, {"}"}) THEN ParseOk(JObj(<<>>), j + 1) ELSE ParseMembers(txt, j, <<>>)
      ELSE IF txt[i] = "["
        THEN IF At(txt, j, {"]"}) THEN ParseOk(JArr(<<>>), j + 1) ELSE ParseElements(txt, j, <<>>)
      ELSE IF txt[i] = "\"" THEN ScanString(txt, i + 1, <<>>)
      ELSE IF txt[i] \in Digit \cup {"-"} THEN ParseNumber(txt, i)
      ELSE ParseLiteral(txt, i)

\* Object members from the position of a key; a repeated key keeps its last value.
ParseMembers(txt, i, acc) ==
  LET k == IF At(txt, i, {"\""}) THEN ScanString(txt, i + 1, <<>>) ELSE ParseFail
      c == SkipWhitespace(txt, k.i)
      v == IF k.ok /\ At(txt, c, {":"}) THEN ParseValue(txt, c + 1) ELSE ParseFail
      n == SkipWhitespace(txt, v.i)
      acc2 == ObjSet(acc, k.v.s, v.v)
  IN  IF ~v.ok THEN ParseFail
      ELSE IF At(txt, n, {"}"}) THEN ParseOk(JObj(acc2), n + 1)
      ELSE IF At(txt, n, {","}) THEN ParseMembers(txt, SkipWhitespace(txt, n + 1), acc2)
      ELSE ParseFail

ParseElements(txt, i, acc) ==
  LET v == ParseValue(txt, i)
      n == SkipWhitespace(txt, v.i)
      acc2 == Append(acc, v.v)
  IN  IF ~v.ok THEN ParseFail
      ELSE IF At(txt, n, {"]"}) THEN ParseOk(JArr(acc2), n + 1)
      ELSE IF At(txt, n, {","}) THEN ParseElements(txt, n + 1, acc2)
      ELSE ParseFail

\* JSON.parse(txt): ok is FALSE where JSON.parse throws a SyntaxError.
JsonParse(txt) ==
  LET r == ParseValue(txt, 1)
  IN  IF r.ok /\ SkipWhitespace(txt, r.i) = Len(txt) + 1 THEN [ok |-> TRUE, v |-> r.v]
      ELSE [ok |-> FALSE, v |-> JUndefined]


(***************************************************************************)
(* JSON.stringify(v, null, 2).                                            *)
(***************************************************************************)
Spaces(n) == [k \in 1..n |-> " "]

\* The characters of a string literal's body: the characters up to the first one
\* that needs an escape, its escape, and the rest likewise.
RECURSIVE EscapeChars(_)
EscapeChars(cs) ==
  LET k == FirstOf(cs, 1, {"\"", "\\", "\n", "\r", "\t"})
      esc == CASE cs[k] \in {"\"", "\\"} -> <<"\\", cs[k]>>
               [] cs[k] = "\n" -> <<"\\", "n">>
               [] cs[k] = "\r" -> <<"\\", "r">>
               [] OTHER -> <<"\\", "t">>
  IN  IF k = 0 THEN cs
      ELSE SubSeq(cs, 1, k - 1) \o esc \o EscapeChars(SubSeq(cs, k + 1, Len(cs)))

Quote(cs) == <<"\"">> \o EscapeChars(cs) \o <<"\"">>

\* The members JSON.stringify prints: those whose value is not undefined.
RECURSIVE Printable(_)
Printable(members) ==
  IF members = <<>> THEN <<>>
  ELSE (IF Head(members).kids[1].t = "undefined" THEN <<>> ELSE <<Head(members)>>)
       \o Printable(Tail(members))

RECURSIVE Stringify(_, _), StringifyItems(_, _, _)
Stringify(v, depth) ==
  CASE v.t \in {"null", "undefined"} -> S_null
    [] v.t = "boolean" -> v.s
    [] v.t = "number" -> IF IsFiniteNumber(v) THEN NumberToString(v) ELSE S_null
    [] v.t = "string" -> Quote(v.s)
    [] v.t = "array" ->
         IF v.kids = <<>> THEN <<"[", "]">>
         ELSE <<"[", "\n">> \o StringifyItems(v.kids, 1, depth + 1)
              \o <<"\n">> \o Spaces(2 * depth) \o <<"]">>
    [] v.t = "object" ->
         IF Printable(v.kids) = <<>> THEN <<"{", "}">>
         ELSE <<"{", "\n">> \o StringifyItems(Printable(v.kids), 1, depth + 1)
              \o <<"\n">> \o Spaces(2 * depth) \o <<"}">>

\* The elements or members from position n on, one per line at the given depth.
StringifyItems(items, n, depth) ==
  LET it == items[n]
      text == IF it.t = "member"
              THEN Quote(it.s) \o <<":", " ">> \o Stringify(it.kids[1], depth)
              ELSE Stringify(it, depth)
  IN  Spaces(2 * depth) \o text
      \o (IF n = Len(items) THEN <<>> ELSE <<",", "\n">> \o StringifyItems(items, n + 1, depth))

JsonStringify(v) == Stringify(v, 0)

(***************************************************************************)
(* String and array primitives of the runtime.                            *)
(***************************************************************************)
\* String.prototype.split(/\r?\n/) of the text from position i on: the next separator
\* is the next \n together with a \r right before it.
RECURSIVE SplitFrom(_, _)
SplitFrom(txt, i) ==
  LET k == FirstOf(txt, i, {"\n"})
      cut == IF k > i /\ txt[k - 1] = "\r" THEN k - 2 ELSE k - 1
  IN  IF k = 0 THEN <<SubSeq(txt, i, Len(txt))>>
      ELSE <<SubSeq(txt, i, cut)>> \o SplitFrom(txt, k + 1)

SplitLines(txt) == SplitFrom(txt, 1)

TrimWhitespace == {" ", "\t", "\n", "\r"}

RECURSIVE TrimStart(_)
TrimStart(txt) == IF txt # <<>> /\ Head(txt) \in TrimWhitespace THEN TrimStart(Tail(txt)) ELSE txt

RECURSIVE TrimEnd(_)
TrimEnd(txt) ==
  IF txt # <<>> /\ txt[Len(txt)] \in TrimWhitespace
  THEN TrimEnd(SubSeq(txt, 1, Len(txt) - 1)) ELSE txt

\* String.prototype.trim
Trim(txt) == TrimEnd(TrimStart(txt))

\* String.prototype.startsWith
StartsWith(txt, prefix) == Matches(txt, 1, prefix)

\* String.prototype.slice(n)
Slice(txt, n) == SubSeq(txt, n + 1, Len(txt))

\* ToString of a value; an array prints its elements joined by commas.
RECURSIVE ToStringJS(_), JoinValues(_, _)
ToStringJS(v) ==
  CASE v.t = "string" -> v.s
    [] v.t = "number" -> NumberToString(v)
    [] v.t = "boolean" -> v.s
    [] v.t = "null" -> S_null
    [] v.t = "undefined" -> S_undefined
    [] v.t = "array" -> JoinValues(v.kids, <<",">>)
    [] OTHER -> S_objectObject

\* Array.prototype.join(sep): null and undefined elements print as the empty string.
JoinValues(vs, sep) ==
  IF vs = <<>> THEN <<>>
  ELSE (IF IsNullish(Head(vs)) THEN <<>> ELSE ToStringJS(Head(vs)))
       \o (IF Len(vs) = 1 THEN <<>> ELSE sep \o JoinValues(Tail(vs), sep))

(***************************************************************************)
(* mergeOpenAIChunks.  The tool_calls array under construction is kept as *)
(* its own properties in creation order (key, accumulator): writing       *)
(* tool_calls[k] past the end leaves holes, which are the absent keys.    *)
(***************************************************************************)
RECURSIVE DigitsOfNat(_)
DigitsOfNat(n) ==
  LET d == <<"0", "1", "2", "3", "4", "5", "6", "7", "8", "9">>[(n % 10) + 1]
  IN  IF n < 10 THEN <<d>> ELSE Append(DigitsOfNat(n \div 10), d)

\* A canonical array index: decimal digits without a leading zero.
IsArrayIndex(key) ==
  /\ key # <<>>
  /\ \A n \in 1..Len(key) : key[n] \in Digit
  /\ (Len(key) = 1 \/ key[1] # "0")

IsIntegerSpelling(cs) == IsArrayIndex(cs) \/ (Len(cs) >= 2 /\ cs[1] = "-" /\ IsArrayIndex(Tail(cs)))

IntOfSpelling(cs) == IF cs[1] = "-" THEN 0 - NatOfDigits(Tail(cs)) ELSE NatOfDigits(cs)

SpellingOfInt(n) == IF n < 0 THEN <<"-">> \o DigitsOfNat(0 - n) ELSE DigitsOfNat(n)

\* v ?? ''
OrEmpty(v) == IF IsNullish(v) THEN JStr(<<>>) ELSE v

\* a + b for a non-nullish b.  Two numbers add; otherwise the operands are
\* concatenated as strings.  The sum is computed for integer operands; a sum with a
\* fractional or infinite operand keeps the spelling of its two operands.
Plus(a, b) ==
  IF a.t = "number" /\ b.t \in {"number", "boolean"}
  THEN LET n == IF b.t = "number" THEN b.s ELSE IF b.s = S_true THEN <<"1">> ELSE <<"0">>
       IN  IF IsIntegerSpelling(a.s) /\ IsIntegerSpelling(n)
           THEN JNum(SpellingOfInt(IntOfSpelling(a.s) + IntOfSpelling(n)))
           ELSE JNum(a.s \o <<"+">> \o n)
  ELSE JStr(ToStringJS(a) \o ToStringJS(b))

\* The accumulator created on the first delta for a slot.
NewToolCall ==
  JObj(<<Member(S_function, JObj(<<Member(S_name, JStr(<<>>)), Member(S_arguments, JStr(<<>>))>>)),
         Member(S_index, JNum(<<"0">>)),
         Member(S_id, JStr(<<>>))>>)

MergeFail == [ok |-> FALSE, content |-> <<>>, slots |-> <<>>]

\* Mutant: a fragment replaces what the accumulator holds instead of being appended.
MergeToolCall_replacing(prev, toolCall) ==
  LET idx == Get(toolCall, S_index)
      key == ToStringJS(idx)
      found == Get(JObj(prev.slots), key)
      prevToolCall == IF Truthy(found) THEN found ELSE NewToolCall
      fn == Get(toolCall, S_function)
      prevFn == Get(prevToolCall, S_function)
      newFn == JObj(ObjSet(ObjSet(prevFn.kids,
                 S_name, OrEmpty(Get(fn, S_name))),
                 S_arguments, OrEmpty(Get(fn, S_arguments))))
      merged == JObj(ObjSet(ObjSet(ObjSet(prevToolCall.kids,
                  S_function, newFn),
                  S_index, Plus(Get(prevToolCall, S_index), OrEmpty(idx))),
                  S_id, OrEmpty(Get(toolCall, S_id))))
  IN  IF IsNullish(toolCall) \/ IsNullish(fn) THEN MergeFail
      ELSE [prev EXCEPT !.slots = ObjSet(prev.slots, key, merged)]

\* Mutant: the accumulator's index is assigned the delta's index instead of increased.
MergeToolCall_indexAssigned(prev, toolCall) ==
  LET idx == Get(toolCall, S_index)
      key == ToStringJS(idx)
      found == Get(JObj(prev.slots), key)
      prevToolCall == IF Truthy(found) THEN found ELSE NewToolCall
      fn == Get(toolCall, S_function)
      prevFn == Get(prevToolCall, S_function)
      newFn == JObj(ObjSet(ObjSet(prevFn.kids,
                 S_name, Plus(Get(prevFn, S_name), OrEmpty(Get(fn, S_name)))),
                 S_arguments, Plus(Get(prevFn, S_arguments), OrEmpty(Get(fn, S_arguments)))))
      merged == JObj(ObjSet(ObjSet(ObjSet(prevToolCall.kids,
                  S_function, newFn),
                  S_index, OrEmpty(idx)),
                  S_id, Plus(Get(prevToolCall, S_id), OrEmpty(Get(toolCall, S_id)))))
  IN  IF IsNullish(toolCall) \/ IsNullish(fn) THEN MergeFail
      ELSE [prev EXCEPT !.slots = ObjSet(prev.slots, key, merged)]

\* The body of the forEach callback for one tool-call delta.
MergeToolCall(prev, toolCall) ==
  LET idx == Get(toolCall, S_index)
      key == ToStringJS(idx)
      found == Get(JObj(prev.slots), key)
      prevToolCall == IF Truthy(found) THEN found ELSE NewToolCall
      fn == Get(toolCall, S_function)
      prevFn == Get(prevToolCall, S_function)
      newFn == JObj(ObjSet(ObjSet(prevFn.kids,
                 S_name, Plus(Get(prevFn, S_name), OrEmpty(Get(fn, S_name)))),
                 S_arguments, Plus(Get(prevFn, S_arguments), OrEmpty(Get(fn, S_arguments)))))
      merged == JObj(ObjSet(ObjSet(ObjSet(prevToolCall.kids,
                  S_function, newFn),
                  S_index, Plus(Get(prevToolCall, S_index), OrEmpty(idx))),
                  S_id, Plus(Get(prevToolCall, S_id), OrEmpty(Get(toolCall, S_id)))))
  IN  IF IsNullish(toolCall) \/ IsNullish(fn) THEN MergeFail
      ELSE [prev EXCEPT !.slots = ObjSet(prev.slots, key, merged)]

RECURSIVE MergeToolCalls(_, _, _)
MergeToolCalls(prev, toolCalls, n) ==
  IF ~prev.ok \/ n > Len(toolCalls) THEN prev
  ELSE MergeToolCalls(MergeToolCall(prev, toolCalls[n]), toolCalls, n + 1)

\* Mutant: a chunk's content replaces the running content.
MergeChunk_contentReplaced(prev, chunk) ==
  LET choices == Get(chunk, S_choices)
      first == GetFirst(choices)
      delta0 == IF IsNullish(first) THEN JUndefined ELSE Get(first, S_delta)
      delta == IF IsNullish(delta0) THEN JObj(<<>>) ELSE delta0
      withContent == [prev EXCEPT !.content = ToStringJS(OrEmpty(Get(delta, S_content)))]
      toolCalls == Get(delta, S_tool_calls)
  IN  IF IsNullish(chunk) \/ IsNullish(choices) THEN MergeFail
      ELSE IF IsNullish(toolCalls) THEN withContent
      ELSE IF toolCalls.t # "array" THEN MergeFail
      ELSE MergeToolCalls(withContent, toolCalls.kids, 1)

\* The reducer applied to one chunk.
MergeChunk(prev, chunk) ==
  LET choices == Get(chunk, S_choices)
      first == GetFirst(choices)
      delta0 == IF IsNullish(first) THEN JUndefined ELSE Get(first, S_delta)
      delta == IF IsNullish(delta0) THEN JObj(<<>>) ELSE delta0
      withContent == [prev EXCEPT !.content = Plus(JStr(prev.content), OrEmpty(Get(delta, S_content))).s]
      toolCalls == Get(delta, S_tool_calls)
  IN  IF IsNullish(chunk) \/ IsNullish(choices) THEN MergeFail
      ELSE IF IsNullish(toolCalls) THEN withContent
      ELSE IF toolCalls.t # "array" THEN MergeFail
      ELSE MergeToolCalls(withContent, toolCalls.kids, 1)

\* Mutant: the reduction starts again from the empty message whatever it is given.
RECURSIVE MergeFrom_restart(_, _, _)
MergeFrom_restart(prev, chunks, n) ==
  IF ~prev.ok \/ n > Len(chunks) THEN prev
  ELSE MergeFrom_restart(MergeChunk(IF n = 1 THEN [ok |-> TRUE, content |-> <<>>, slots |-> <<>>]
                                             ELSE prev, chunks[n]), chunks, n + 1)

RECURSIVE MergeFrom(_, _, _)
MergeFrom(prev, chunks, n) ==
  IF ~prev.ok \/ n > Len(chunks) THEN prev
  ELSE MergeFrom(MergeChunk(prev, chunks[n]), chunks, n + 1)

\* The length of the tool_calls array: one more than its largest index.
RECURSIVE SlotsLength(_)
SlotsLength(slots) ==
  IF slots = <<>> THEN 0
  ELSE LET rest == SlotsLength(Tail(slots))
           here == IF IsArrayIndex(Head(slots).s) THEN NatOfDigits(Head(slots).s) + 1 ELSE 0
       IN  IF here > rest THEN here ELSE rest

\* Mutant: the accumulators in order of first appearance, with no holes.
ToolCallsArray_compact(slots) ==
  JArr([n \in 1..Len(slots) |-> slots[n].kids[1]])

\* The tool_calls array: the slot stored under each index below its length, a hole
\* where none was stored.
ToolCallsArray(slots) ==
  JArr([n \in 1..SlotsLength(slots) |-> Get(JObj(slots), DigitsOfNat(n - 1))])

\* mergeOpenAIChunks(chunks): ok is FALSE where it throws a TypeError.
mergeOpenAIChunks(chunks) ==
  LET m == MergeFrom([ok |-> TRUE, content |-> <<>>, slots |-> <<>>], chunks, 1)
  IN  [ok |-> m.ok,
       v |-> JObj(<<Member(S_content, JStr(m.content)),
                    Member(S_tool_calls, ToolCallsArray(m.slots))>>)]

(***************************************************************************)
(* formatResponseBody.  Its result records how the call ended (outcome    *)
(* "return" with the returned text, or "throw" with the error's name),    *)
(* the branch taken, the texts handed to JSON.parse in call order, and    *)
(* the number of console.log calls made.                                   *)
(***************************************************************************)
HeaderUndefined == "<undefined>"

Returned(path, value, parsed, logged) ==
  [outcome |-> "return", value |-> value, error |-> "", path |-> path,
   parsed |-> parsed, logged |-> logged]

Thrown(path, error, parsed, logged) ==
  [outcome |-> "throw", value |-> <<>>, error |-> error, path |-> path,
   parsed |-> parsed, logged |-> logged]

\* Mutant: both headers are required.
IsStreamedResponse_bothHeaders(r) ==
  r.contentType = "text/event-stream" /\ r.transferEncoding = "chunked"

IsStreamedResponse(r) ==
  r.contentType = "text/event-stream" \/ r.transferEncoding = "chunked"

\* Mutant: the parse failure is not caught.
FormatWhole_uncaught(buf) ==
  LET p == JsonParse(buf)
  IN  IF p.ok THEN Returned("json", JsonStringify(p.v), <<buf>>, 0)
      ELSE Thrown("json", "SyntaxError", <<buf>>, 0)

\* Mutant: the catch block returns the empty string.
FormatWhole_emptyOnFailure(buf) ==
  LET p == JsonParse(buf)
  IN  IF p.ok THEN Returned("json", JsonStringify(p.v), <<buf>>, 0)
      ELSE Returned("json", <<>>, <<buf>>, 0)

\* Mutant: a buffer that parses is returned as received.
FormatWhole_unformatted(buf) == Returned("json", buf, <<buf>>, 0)

\* The non-streamed branch: pretty-print the whole buffer, or return it as it is.
FormatWhole(buf) ==
  LET p == JsonParse(buf)
  IN  IF p.ok THEN Returned("json", JsonStringify(p.v), <<buf>>, 0)
      ELSE Returned("json", buf, <<buf>>, 0)

TrimmedLines(buf) == LET ls == SplitLines(buf) IN [n \in 1..Len(ls) |-> Trim(ls[n])]

HasSSEChunks(lines) == \E n \in 1..Len(lines) : StartsWith(lines[n], S_dataPrefix)

\* What one line of a plain chunked stream maps to: message.content of the parsed
\* line, or the line itself when JSON.parse or the property read throws.
PlainFragment(line) ==
  LET p == JsonParse(line)
      message == Get(p.v, S_message)
  IN  IF ~p.ok \/ IsNullish(p.v) \/ IsNullish(message) THEN JStr(line)
      ELSE Get(message, S_content)

\* Mutant: join() with its default separator.
FormatPlain_defaultJoin(lines) ==
  Returned("plain", JoinValues([n \in 1..Len(lines) |-> PlainFragment(lines[n])], <<",">>),
           lines, 4)

FormatPlain(lines) ==
  Returned("plain", JoinValues([n \in 1..Len(lines) |-> PlainFragment(lines[n])], <<>>),
           lines, 4)

\* Mutant: the [DONE] sentinel is not filtered out.
IsRetainedFrame_keepsDone(line) == StartsWith(line, S_dataPrefix)

IsRetainedFrame(line) == StartsWith(line, S_dataPrefix) /\ line # S_doneSentinel

FramePayload(line) == Trim(Slice(line, 5))

\* Mutant: a payload that fails to parse is skipped.
RECURSIVE ParseFrames_skipUnparsed(_, _, _)
ParseFrames_skipUnparsed(frames, n, acc) ==
  LET p == JsonParse(FramePayload(frames[n]))
  IN  IF n > Len(frames) THEN [ok |-> TRUE, chunks |-> acc, tried |-> Len(frames)]
      ELSE ParseFrames_skipUnparsed(frames, n + 1, IF p.ok THEN Append(acc, p.v) ELSE acc)

\* The map over the retained frames: JSON.parse of each payload in order, ended by the
\* first that throws.  tried is the number of payloads handed to JSON.parse.
RECURSIVE ParseFrames(_, _, _)
ParseFrames(frames, n, acc) ==
  LET p == JsonParse(FramePayload(frames[n]))
  IN  IF n > Len(frames) THEN [ok |-> TRUE, chunks |-> acc, tried |-> Len(frames)]
      ELSE IF ~p.ok THEN [ok |-> FALSE, chunks |-> acc, tried |-> n]
      ELSE ParseFrames(frames, n + 1, Append(acc, p.v))

\* parsedSSEChunks.some(chunk => chunk.object === 'chat.completion.chunk' && chunk.choices):
\* "true", "false", or "throw" when a chunk read before a match is null.
RECURSIVE SomeOpenAIChunk(_, _)
SomeOpenAIChunk(chunks, n) ==
  IF n > Len(chunks) THEN "false"
  ELSE IF IsNullish(chunks[n]) THEN "throw"
  ELSE IF Get(chunks[n], S_object) = JStr(S_chunkObject) /\ Truthy(Get(chunks[n], S_choices))
    THEN "true"
  ELSE SomeOpenAIChunk(chunks, n + 1)

\* The rendering of the frames once parsed: lines 62-68, after the four log calls.
RenderChunks(frames, r) ==
  LET parsed == [n \in 1..r.tried |-> FramePayload(frames[n])]
  IN  IF ~r.ok THEN Thrown("sse", "SyntaxError", parsed, 4)
      ELSE The({
        IF isOpenAIChunk = "throw" THEN Thrown("sse", "TypeError", parsed, 4)
        ELSE IF isOpenAIChunk = "false"
          THEN Returned("sse", JsonStringify(JArr(r.chunks)), parsed, 4)
        ELSE The({
          IF ~mergedMessage.ok THEN Thrown("sse", "TypeError", parsed, 4)
          ELSE Returned("sse", JsonStringify(mergedMessage.v), parsed, 4)
          : mergedMessage \in {mergeOpenAIChunks(r.chunks)}})
        : isOpenAIChunk \in {SomeOpenAIChunk(r.chunks, 1)}})

\* Lines 59-68.  Each const of the source is bound to its value once.
FormatSSE(lines) ==
  The({The({RenderChunks(frames, parsedSSEChunks)
              : parsedSSEChunks \in {ParseFrames(frames, 1, <<>>)}})
         : frames \in {SelectSeq(lines, IsRetainedFrame)}})

\* Mutant: the raw option is not looked at.
formatResponseBody_ignoresRaw(r, buf, opts) ==
  IF ~IsStreamedResponse(r) THEN FormatWhole(buf)
  ELSE The({IF ~HasSSEChunks(lines) THEN FormatPlain(lines) ELSE FormatSSE(lines)
              : lines \in {TrimmedLines(buf)}})

formatResponseBody(r, buf, opts) ==
  IF opts.raw THEN Returned("raw", buf, <<>>, 0)
  ELSE IF ~IsStreamedResponse(r) THEN FormatWhole(buf)
  ELSE The({IF ~HasSSEChunks(lines) THEN FormatPlain(lines) ELSE FormatSSE(lines)
              : lines \in {TrimmedLines(buf)}})

(***************************************************************************)
(* The inputs: response buffers of up to MaxFrames lines, each line one   *)
(* of the frame texts below, under every combination of the two declared  *)
(* headers and of the raw option.                                          *)
(***************************************************************************)
MaxFrames == 2

\* 'line1'
F_text ==
  <<"l", "i", "n", "e", "1">>
\* ' line2 '
F_padded ==
  <<" ", "l", "i", "n", "e", "2", " ">>
\* '{"message": {"content": "Hello"}}'
F_message ==
  <<"{", "\"", "m", "e", "s", "s", "a", "g", "e", "\"", ":", " ", "{", "\"", "c", "o", "n", "t",
    "e", "n", "t", "\"", ":", " ", "\"", "H", "e", "l", "l", "o", "\"", "}", "}">>
\* '{"message": {}}'
F_noContent ==
  <<"{", "\"", "m", "e", "s", "s", "a", "g", "e", "\"", ":", " ", "{", "}", "}">>
\* '{"x":1,"x":2}'
F_noMessage ==
  <<"{", "\"", "x", "\"", ":", "1", ",", "\"", "x", "\"", ":", "2", "}">>
\* '1e999'
F_overflow ==
  <<"1", "e", "9", "9", "9">>
\* '-0'
F_negZero ==
  <<"-", "0">>
\* 'data: [DONE]'
F_done ==
  <<"d", "a", "t", "a", ":", " ", "[", "D", "O", "N", "E", "]">>
\* 'data:[DONE]'
F_doneNoSpace ==
  <<"d", "a", "t", "a", ":", "[", "D", "O", "N", "E", "]">>
\* 'data: {"object": "chat.completion.chunk", "choices": [{"delta": {"content": "Hello"}}]}'
F_chunk ==
  <<"d", "a", "t", "a", ":", " ", "{", "\"", "o", "b", "j", "e", "c", "t", "\"", ":", " ", "\"",
    "c", "h", "a", "t", ".", "c", "o", "m", "p", "l", "e", "t", "i", "o", "n", ".", "c", "h",
    "u", "n", "k", "\"", ",", " ", "\"", "c", "h", "o", "i", "c", "e", "s", "\"", ":", " ", "[",
    "{", "\"", "d", "e", "l", "t", "a", "\"", ":", " ", "{", "\"", "c", "o", "n", "t", "e", "n",
    "t", "\"", ":", " ", "\"", "H", "e", "l", "l", "o", "\"", "}", "}", "]", "}">>
\* 'data: {'
F_badData ==
  <<"d", "a", "t", "a", ":", " ", "{">>
\* 'data:{"x":1}'
F_otherData ==
  <<"d", "a", "t", "a", ":", "{", "\"", "x", "\"", ":", "1", "}">>

F_empty == <<>>

FrameTexts ==
  {F_empty, F_text, F_padded, F_message, F_noContent, F_noMessage, F_overflow, F_negZero,
   F_done, F_doneNoSpace, F_chunk, F_badData, F_otherData}

LineBreaks == {<<"\n">>, <<"\r", "\n">>}

ContentTypes == {HeaderUndefined, "application/json", "text/event-stream"}

TransferEncodings == {HeaderUndefined, "chunked"}

RECURSIVE JoinLines(_, _)
JoinLines(ls, br) ==
  IF Len(ls) = 1 THEN ls[1] ELSE ls[1] \o br \o JoinLines(Tail(ls), br)

Buffers ==
  {JoinLines(ls, br) : ls \in UNION {[1..n -> FrameTexts] : n \in 1..MaxFrames}, br \in LineBreaks}

NoResult ==
  [outcome |-> "pending", value |-> <<>>, error |-> "", path |-> "", parsed |-> <<>>,
   logged |-> 0]

Init ==
  /\ res \in [contentType : ContentTypes, transferEncoding : TransferEncodings]
  /\ allResponseChunks \in Buffers
  /\ cliOptions \in [raw : BOOLEAN]
  /\ requestData = <<>>
  /\ parsedChunks = <<>>
  /\ argv = <<>>
  /\ wire = <<>>
  /\ crashed = FALSE
  /\ pc = "ready"
  /\ ret = NoResult

\* The 'end' handler's call formatResponseBody({ res, allResponseChunks, cliOptions }).
CallFormatResponseBody ==
  /\ pc = "ready"
  /\ ret' = formatResponseBody(res, allResponseChunks, cliOptions)
  /\ pc' = "done"
  /\ UNCHANGED <<res, allResponseChunks, requestData, parsedChunks, cliOptions, argv, wire, crashed>>

Next == CallFormatResponseBody

Spec == Init /\ [][Next]_vars

(***************************************************************************)
(* Properties of formatResponseBody.                                      *)
(***************************************************************************)
Done == pc = "done"

\* The response is declared as streamed by one of its two headers.
DeclaredStreamed ==
  res.contentType = "text/event-stream" \/ res.transferEncoding = "chunked"

\* The frames of the buffer: its lines, trimmed.
Frames == LET ls == SplitLines(allResponseChunks) IN [n \in 1..Len(ls) |-> Trim(ls[n])]

IsDataFrame(f) == Len(f) >= 5 /\ SubSeq(f, 1, 5) = <<"d", "a", "t", "a", ":">>

PlainChunked == Done /\ ~cliOptions.raw /\ DeclaredStreamed /\ \A n \in 1..Len(Frames) : ~IsDataFrame(Frames[n])

ServerSentEvents == Done /\ ~cliOptions.raw /\ DeclaredStreamed /\ \E n \in 1..Len(Frames) : IsDataFrame(Frames[n])

RECURSIVE Concat(_)
Concat(texts) == IF texts = <<>> THEN <<>> ELSE Head(texts) \o Concat(Tail(texts))

\* Deep equality of two values: the same type and the same content, object members
\* compared by key whatever their order, numbers by value.  With signedZero, 0 and -0
\* differ (Object.is, as the test framework's toEqual compares); without, they are equal.
RECURSIVE DeepEqualBy(_, _, _)
DeepEqualBy(a, b, signedZero) ==
  /\ a.t = b.t
  /\ CASE a.t = "array" ->
            /\ Len(a.kids) = Len(b.kids)
            /\ \A n \in 1..Len(a.kids) : DeepEqualBy(a.kids[n], b.kids[n], signedZero)
       [] a.t = "object" ->
            /\ {a.kids[n].s : n \in 1..Len(a.kids)} = {b.kids[n].s : n \in 1..Len(b.kids)}
            /\ \A n \in 1..Len(a.kids) :
                 DeepEqualBy(a.kids[n].kids[1], Get(b, a.kids[n].s), signedZero)
       [] a.t = "number" /\ ~signedZero -> NumberToString(a) = NumberToString(b)
       [] OTHER -> a.s = b.s

DeepEqual(a, b) == DeepEqualBy(a, b, TRUE)

\* The value holds a number that JSON.stringify does not print back: an infinite
\* number (printed as null) or negative zero (printed as 0).
RECURSIVE HasUnprintableNumber(_)
HasUnprintableNumber(v) ==
  \/ v.t = "number" /\ (~IsFiniteNumber(v) \/ v.s = <<"-", "0">>)
  \/ \E n \in 1..Len(v.kids) : HasUnprintableNumber(v.kids[n])

\* C1: formatResponseBody never throws: every call returns a string.
C1_NeverThrows == Done => ret.outcome = "return"

\* C2: with options.raw set, the buffer is returned verbatim whatever the headers and
\* the body, and nothing is handed to JSON.parse, split into frames or logged.
C2_RawReturnsVerbatim ==
  Done /\ cliOptions.raw =>
    /\ ret.outcome = "return"
    /\ ret.value = allResponseChunks
    /\ ret.path = "raw"
    /\ ret.parsed = <<>>
    /\ ret.logged = 0

C2_Witness ==
  /\ Done /\ cliOptions.raw
  /\ res.contentType = "text/event-stream"
  /\ allResponseChunks = F_badData \o <<"\n">> \o F_chunk
  /\ ret.value = allResponseChunks

\* C3: the streamed branches are taken exactly when content-type is text/event-stream
\* or transfer-encoding is chunked, whatever the body.
C3_StreamedIffDeclared ==
  Done /\ ~cliOptions.raw =>
    (ret.path \in {"plain", "sse"} <=>
       (res.contentType = "text/event-stream" \/ res.transferEncoding = "chunked"))

C3_Witness ==
  /\ Done /\ ~cliOptions.raw
  /\ res.contentType = "application/json" /\ res.transferEncoding = HeaderUndefined
  /\ allResponseChunks = F_chunk
  /\ ret.path = "json"

\* C4: a non-streamed response whose buffer fails JSON.parse is returned unchanged,
\* and nothing is thrown.
C4_NonStreamedFallback ==
  Done /\ ~cliOptions.raw /\ ~DeclaredStreamed /\ ~JsonParse(allResponseChunks).ok =>
    ret.outcome = "return" /\ ret.value = allResponseChunks

C4_Witness ==
  /\ Done /\ ~cliOptions.raw /\ ~DeclaredStreamed
  /\ allResponseChunks = F_badData
  /\ ret.outcome = "return" /\ ret.value = F_badData

\* C5 as stated: a buffer that fails JSON.parse is returned unchanged whatever the
\* declared headers and the options.
C5_FallbackWhateverHeaders ==
  Done /\ ~JsonParse(allResponseChunks).ok =>
    ret.outcome = "return" /\ ret.value = allResponseChunks

\* C5 amended: a buffer that fails JSON.parse is returned unchanged when raw is set or
\* the response is not declared as streamed.
C5_FallbackUnlessStreamed ==
  Done /\ ~JsonParse(allResponseChunks).ok /\ (cliOptions.raw \/ ~DeclaredStreamed) =>
    ret.outcome = "return" /\ ret.value = allResponseChunks

C5_Witness ==
  /\ Done /\ ~cliOptions.raw /\ ~DeclaredStreamed
  /\ allResponseChunks = F_text \o <<"\r", "\n">> \o F_message
  /\ ~JsonParse(allResponseChunks).ok
  /\ ret.value = allResponseChunks

\* C6 as stated: for a valid JSON non-streamed body the output is the 2-space
\* pretty-print of the parsed input and parses back to a deep-equal value (here under
\* the weaker equality that takes 0 and -0 as equal).
C6_PrettyRoundTrip ==
  Done /\ ~cliOptions.raw /\ ~DeclaredStreamed /\ JsonParse(allResponseChunks).ok =>
    /\ ret.outcome = "return"
    /\ ret.value = JsonStringify(JsonParse(allResponseChunks).v)
    /\ JsonParse(ret.value).ok
    /\ DeepEqualBy(JsonParse(ret.value).v, JsonParse(allResponseChunks).v, FALSE)

\* C6 amended: the output is the 2-space pretty-print of the parsed input and is valid
\* JSON; it parses back to a deep-equal value when the parsed input holds no infinite
\* number and no negative zero.
C6_PrettyRoundTripOfPrintable ==
  Done /\ ~cliOptions.raw /\ ~DeclaredStreamed /\ JsonParse(allResponseChunks).ok =>
    /\ ret.outcome = "return"
    /\ ret.value = JsonStringify(JsonParse(allResponseChunks).v)
    /\ JsonParse(ret.value).ok
    /\ (~HasUnprintableNumber(JsonParse(allResponseChunks).v) =>
          DeepEqual(JsonParse(ret.value).v, JsonParse(allResponseChunks).v))

C6_Witness ==
  /\ Done /\ ~cliOptions.raw /\ ~DeclaredStreamed
  /\ allResponseChunks = F_noMessage \o <<"\n">>
  /\ ret.value # allResponseChunks
  /\ DeepEqual(JsonParse(ret.value).v, JsonParse(allResponseChunks).v)

\* C7: in a streamed response with no data frame the output is the fragments of the
\* frames, one per frame in frame order with nothing between them; a frame that fails
\* JSON.parse contributes its own text, and the frames after it are still processed.
C7_PlainConcatenation ==
  PlainChunked =>
    /\ ret.outcome = "return"
    /\ ret.value = Concat([n \in 1..Len(Frames) |->
                             IF JsonParse(Frames[n]).ok
                             THEN JoinValues(<<PlainFragment(Frames[n])>>, <<>>)
                             ELSE Frames[n]])

C7_Witness ==
  /\ PlainChunked
  /\ allResponseChunks = F_text \o <<"\n">> \o F_message
  /\ ret.value = F_text \o <<"H", "e", "l", "l", "o">>

\* The frame parses to a value whose message has a content.
HasMessageContent(f) ==
  /\ JsonParse(f).ok
  /\ Get(Get(JsonParse(f).v, S_message), S_content).t # "undefined"

\* C8: in the plain chunked path a frame that parses contributes its message.content
\* when that is present and the text of the frame otherwise.
C8_ContentOrFrameText ==
  PlainChunked =>
    /\ ret.outcome = "return"
    /\ ret.value = Concat([n \in 1..Len(Frames) |->
                             IF HasMessageContent(Frames[n])
                             THEN JoinValues(<<Get(Get(JsonParse(Frames[n]).v, S_message),
                                                   S_content)>>, <<>>)
                             ELSE Frames[n]])

\* The payloads of the data frames other than the sentinel, in wire order.
KeptFrame(f) == IsDataFrame(f) /\ f # <<"d", "a", "t", "a", ":", " ", "[", "D", "O", "N", "E", "]">>

DataPayloads ==
  LET kept == SelectSeq(Frames, KeptFrame)
  IN  [n \in 1..Len(kept) |-> Trim(SubSeq(kept[n], 6, Len(kept[n])))]

\* C9 as stated: in the SSE path the texts handed to JSON.parse are exactly the
\* payloads of the data frames other than the sentinel, in wire order, each once.
C9_EveryDataFrameParsed == ServerSentEvents => ret.parsed = DataPayloads

\* C9 amended: the texts handed to JSON.parse are the payloads of the data frames
\* other than the sentinel, in wire order and each once, up to and including the
\* first that fails to parse; when none fails, they are all of them.
C9_DataFramesParsedUpToFailure ==
  ServerSentEvents =>
    /\ Len(ret.parsed) <= Len(DataPayloads)
    /\ ret.parsed = SubSeq(DataPayloads, 1, Len(ret.parsed))
    /\ \A n \in 1..(Len(ret.parsed) - 1) : JsonParse(ret.parsed[n]).ok
    /\ Len(ret.parsed) < Len(DataPayloads) =>
         Len(ret.parsed) >= 1 /\ ~JsonParse(ret.parsed[Len(ret.parsed)]).ok

C9_Witness ==
  /\ ServerSentEvents
  /\ allResponseChunks = F_done \o <<"\r", "\n">> \o F_chunk
  /\ Len(ret.parsed) = 1
  /\ ret.outcome = "return"

\* C10: when a retained SSE data frame fails JSON.parse the call throws or returns the
\* buffer as received: it returns no rendering of the frames that did parse.
C10_NoPartialRendering ==
  ServerSentEvents /\ (\E n \in 1..Len(DataPayloads) : ~JsonParse(DataPayloads[n]).ok) =>
    \/ ret.outcome = "throw"
    \/ ret.outcome = "return" /\ ret.value = allResponseChunks

C10_Witness ==
  /\ ServerSentEvents
  /\ allResponseChunks = F_chunk \o <<"\n">> \o F_badData
  /\ ret.outcome = "throw" /\ ret.error = "SyntaxError"
  /\ Len(ret.parsed) = 2

\* C27: formatResponseBody has no effect other than its returned string: on every path
\* it writes nothing to the console.
C27_NothingLogged == Done => ret.logged = 0

\* The values of the data frames other than the sentinel, when they all parse.
AllPayloadsParse == \A n \in 1..Len(DataPayloads) : JsonParse(DataPayloads[n]).ok

PayloadValues == [n \in 1..Len(DataPayloads) |-> JsonParse(DataPayloads[n]).v]

\* A frame with object 'chat.completion.chunk' and a truthy choices.
IsOpenAIShaped(v) ==
  /\ v.t = "object"
  /\ \E n \in 1..Len(v.kids) : v.kids[n].s = S_object /\ v.kids[n].kids[1] = JStr(S_chunkObject)
  /\ \E n \in 1..Len(v.kids) : v.kids[n].s = S_choices /\ Truthy(v.kids[n].kids[1])

\* C11: the parsed SSE frames are rendered as the merged message if and only if at
\* least one frame has object 'chat.completion.chunk' and a truthy choices; otherwise
\* the output is the pretty-printed array of all the parsed frames in wire order.
C11_MergedIffAnyMatch ==
  ServerSentEvents /\ AllPayloadsParse =>
    /\ ret.outcome = "return"
    /\ ret.value = IF \E n \in 1..Len(PayloadValues) : IsOpenAIShaped(PayloadValues[n])
                   THEN JsonStringify(mergeOpenAIChunks(PayloadValues).v)
                   ELSE JsonStringify(JArr(PayloadValues))

(***************************************************************************)
(* mergeOpenAIChunks applied to parsed chunks.  The inputs are sequences  *)
(* of up to MaxChunks chunks: content deltas, tool-call deltas for the    *)
(* slots 0 and 1, and chunks lacking choices, a delta, or a function.     *)
(***************************************************************************)
MaxChunks == 3

\* { object: 'chat.completion.chunk', choices: [...] }
Chunk(choices) ==
  JObj(<<Member(S_object, JStr(S_chunkObject)), Member(S_choices, JArr(choices))>>)

\* { delta: {...} }
Choice(delta) == JObj(<<Member(S_delta, JObj(delta))>>)

\* { function: { name, arguments } }
FunctionOf(name, arguments) ==
  Member(S_function, JObj(<<Member(S_name, JStr(name)), Member(S_arguments, JStr(arguments))>>))

\* choices: [{ delta: { content: 'He' } }]
K_content == Chunk(<<Choice(<<Member(S_content, JStr(<<"H", "e">>))>>)>>)

\* choices: [{ delta: { content: 'y' } }]
K_moreContent == Chunk(<<Choice(<<Member(S_content, JStr(<<"y">>))>>)>>)

\* choices: [{ delta: { content: null } }]
K_nullContent == Chunk(<<Choice(<<Member(S_content, JNull)>>)>>)

\* choices: [{ delta: {} }]
K_emptyDelta == Chunk(<<Choice(<<>>)>>)

\* choices: [{}]
K_noDelta == Chunk(<<JObj(<<>>)>>)

\* choices: []
K_noChoice == Chunk(<<>>)

\* choices: [{ delta: { tool_calls: [{ index: 0, id: 'a', function: { name: 'f', arguments: '{' } }] } }]
K_call0 ==
  Chunk(<<Choice(<<Member(S_tool_calls, JArr(<<
    JObj(<<Member(S_index, JNum(<<"0">>)), Member(S_id, JStr(<<"a">>)),
           FunctionOf(<<"f">>, <<"{">>)>>)>>))>>)>>)

\* choices: [{ delta: { tool_calls: [{ index: 0, function: { arguments: '}' } }] } }]
K_args0 ==
  Chunk(<<Choice(<<Member(S_tool_calls, JArr(<<
    JObj(<<Member(S_index, JNum(<<"0">>)),
           Member(S_function, JObj(<<Member(S_arguments, JStr(<<"}">>))>>))>>)>>))>>)>>)

\* choices: [{ delta: { content: '!', tool_calls: [{ index: 1, id: 'b', function: { name: 'g', arguments: '1' } }] } }]
K_call1 ==
  Chunk(<<Choice(<<Member(S_content, JStr(<<"!">>)), Member(S_tool_calls, JArr(<<
    JObj(<<Member(S_index, JNum(<<"1">>)), Member(S_id, JStr(<<"b">>)),
           FunctionOf(<<"g">>, <<"1">>)>>)>>))>>)>>)

\* choices: [{ delta: { tool_calls: [{ index: 1, function: { arguments: '2' } }, { index: 0, function: {} }] } }]
K_args1 ==
  Chunk(<<Choice(<<Member(S_tool_calls, JArr(<<
    JObj(<<Member(S_index, JNum(<<"1">>)),
           Member(S_function, JObj(<<Member(S_arguments, JStr(<<"2">>))>>))>>),
    JObj(<<Member(S_index, JNum(<<"0">>)), Member(S_function, JObj(<<>>))>>)>>))>>)>>)

\* choices: [{ delta: { tool_calls: [{ index: 0, id: 'c' }] } }]
K_noFunction ==
  Chunk(<<Choice(<<Member(S_tool_calls, JArr(<<
    JObj(<<Member(S_index, JNum(<<"0">>)), Member(S_id, JStr(<<"c">>))>>)>>))>>)>>)

\* { x: 1 }
K_noChoices == JObj(<<Member(<<"x">>, JNum(<<"1">>))>>)

ChunkValues ==
  {K_content, K_moreContent, K_nullContent, K_emptyDelta, K_noDelta, K_noChoice,
   K_call0, K_args0, K_call1, K_args1, K_noFunction, K_noChoices}

ChunkSequences == UNION {[1..n -> ChunkValues] : n \in 1..MaxChunks}

NoMessage == [ok |-> FALSE, v |-> JUndefined]

InitMerge ==
  /\ parsedChunks \in ChunkSequences
  /\ res = [contentType |-> "text/event-stream", transferEncoding |-> HeaderUndefined]
  /\ allResponseChunks = <<>>
  /\ requestData = <<>>
  /\ cliOptions = [raw |-> FALSE]
  /\ argv = <<>>
  /\ wire = <<>>
  /\ crashed = FALSE
  /\ pc = "ready"
  /\ ret = NoMessage

\* The call mergeOpenAIChunks(parsedSSEChunks) of formatResponseBody.
CallMergeOpenAIChunks ==
  /\ pc = "ready"
  /\ ret' = mergeOpenAIChunks(parsedChunks)
  /\ pc' = "done"
  /\ UNCHANGED <<res, allResponseChunks, requestData, parsedChunks, cliOptions, argv, wire, crashed>>

NextMerge == CallMergeOpenAIChunks

MergeSpec == InitMerge /\ [][NextMerge]_vars

(***************************************************************************)
(* Properties of mergeOpenAIChunks.                                       *)
(***************************************************************************)
\* The call returned a message.
Merged == pc = "done" /\ ret.ok

\* The classifier of formatResponseBody hands the sequence to mergeOpenAIChunks.
Classified ==
  pc = "done" /\ \E n \in 1..Len(parsedChunks) : IsOpenAIShaped(parsedChunks[n])

\* C12: mergeOpenAIChunks never fails on a sequence the any-match classifier hands it,
\* whether a frame lacks choices, a choice lacks a delta, a delta lacks tool_calls or a
\* tool-call delta lacks a function object.
C12_MergeIsTotal == Classified => ret.ok

\* choices[0].delta of a chunk, the empty object where it is absent.
DeltaOf(chunk) ==
  LET cs == Get(chunk, S_choices)
      d == IF cs.t = "array" /\ cs.kids # <<>> THEN Get(cs.kids[1], S_delta) ELSE JUndefined
  IN  IF d.t = "object" THEN d ELSE JObj(<<>>)

\* The text of a string field of an object, empty where the field is absent or null.
Fragment(obj, field) ==
  LET f == Get(obj, field) IN IF f.t = "string" THEN f.s ELSE <<>>

\* The tool-call deltas of the chunks, in arrival order.
RECURSIVE ToolCallDeltas(_)
ToolCallDeltas(cs) ==
  IF cs = <<>> THEN <<>>
  ELSE LET calls == Get(DeltaOf(Head(cs)), S_tool_calls)
       IN  (IF calls.t = "array" THEN calls.kids ELSE <<>>) \o ToolCallDeltas(Tail(cs))

\* The pretty-printed message { content, tool_calls: [] }.
PrettyContentOnly(content) ==
  <<"{", "\n", " ", " ", "\"">> \o S_content \o <<"\"", ":", " ", "\"">> \o content
    \o <<"\"", ",", "\n", " ", " ", "\"">> \o S_tool_calls
    \o <<"\"", ":", " ", "[", "]", "\n", "}">>

\* C13: the merged content is the concatenation, in arrival order, of the
\* choices[0].delta.content of every chunk, an absent content counting as empty; with
\* no tool-call delta the message prints as { content: <concatenation>, tool_calls: [] }.
C13_ContentConcatenated ==
  Merged =>
    LET content == Concat([n \in 1..Len(parsedChunks) |->
                             Fragment(DeltaOf(parsedChunks[n]), S_content)])
    IN  /\ Get(ret.v, S_content) = JStr(content)
        /\ ToolCallDeltas(parsedChunks) = <<>> =>
             JsonStringify(ret.v) = PrettyContentOnly(content)

C13_Witness ==
  /\ Merged
  /\ parsedChunks = <<K_content, K_emptyDelta, K_moreContent>>
  /\ Get(ret.v, S_content) = JStr(<<"H", "e", "y">>)
  /\ JsonStringify(ret.v) = PrettyContentOnly(<<"H", "e", "y">>)

\* The index values carried by the tool-call deltas, as spelled.
IndexesSeen ==
  LET ds == ToolCallDeltas(parsedChunks) IN {Get(ds[n], S_index).s : n \in 1..Len(ds)}

\* The tool-call deltas carrying index i, in arrival order.
RECURSIVE DeltasFor(_, _)
DeltasFor(ds, i) ==
  IF ds = <<>> THEN <<>>
  ELSE (IF Get(Head(ds), S_index) = JNum(i) THEN <<Head(ds)>> ELSE <<>>) \o DeltasFor(Tail(ds), i)

\* The entry of the merged tool_calls array at position i.
Accumulator(i) == Get(ret.v, S_tool_calls).kids[NatOfDigits(i) + 1]

\* C14: after a merge there is exactly one accumulator per distinct index seen, at that
\* position of tool_calls and nowhere else, and its name, arguments and id are the
\* in-order concatenations of the fragments of the deltas carrying that index, starting
\* from empty, whatever deltas for other indexes come in between.
C14_OneAccumulatorPerIndex ==
  Merged =>
    LET calls == Get(ret.v, S_tool_calls).kids
        ds == ToolCallDeltas(parsedChunks)
    IN  /\ \A i \in IndexesSeen : NatOfDigits(i) + 1 <= Len(calls)
        /\ \A p \in 1..Len(calls) : calls[p].t = "object" <=> DigitsOfNat(p - 1) \in IndexesSeen
        /\ calls # <<>> => calls[Len(calls)].t = "object"
        /\ \A i \in IndexesSeen :
             LET mine == DeltasFor(ds, i)
                 fn == Get(Accumulator(i), S_function)
             IN  /\ Get(fn, S_name) =
                      JStr(Concat([n \in 1..Len(mine) |-> Fragment(Get(mine[n], S_function), S_name)]))
                 /\ Get(fn, S_arguments) =
                      JStr(Concat([n \in 1..Len(mine) |-> Fragment(Get(mine[n], S_function), S_arguments)]))
                 /\ Get(Accumulator(i), S_id) =
                      JStr(Concat([n \in 1..Len(mine) |-> Fragment(mine[n], S_id)]))

C14_Witness ==
  /\ Merged
  /\ parsedChunks = <<K_call0, K_call1, K_args0>>
  /\ Len(Get(ret.v, S_tool_calls).kids) = 2
  /\ Get(Get(Accumulator(<<"0">>), S_function), S_arguments) = JStr(<<"{", "}">>)
  /\ Get(Get(Accumulator(<<"1">>), S_function), S_name) = JStr(<<"g">>)

\* C15: the index field of an accumulator starts at 0 and is increased by the delta's
\* index on every delta for its slot: after k deltas carrying index i it is k*i, which
\* is the array position i only when k = 1 or i = 0.
C15_IndexFieldDrifts ==
  Merged =>
    \A i \in IndexesSeen :
      LET k == Len(DeltasFor(ToolCallDeltas(parsedChunks), i))
          index == Get(Accumulator(i), S_index)
      IN  /\ index = JNum(SpellingOfInt(k * NatOfDigits(i)))
          /\ index = JNum(i) <=> (k = 1 \/ NatOfDigits(i) = 0)

C15_Witness ==
  /\ Merged
  /\ parsedChunks = <<K_call1, K_args1, K_args1>>
  /\ Get(Accumulator(<<"1">>), S_index) = JNum(<<"3">>)
  /\ Get(Accumulator(<<"0">>), S_index) = JNum(<<"0">>)

\* The positions of the tool-call indexes seen.
PositionsSeen == {NatOfDigits(i) + 1 : i \in IndexesSeen}

\* C30: the merged tool_calls list is addressed by delta index and not by order of first
\* appearance: its length is one more than the largest index seen, the accumulator
\* for index i sits at position i and carries the first fragments delivered for i, and
\* every position whose index was never seen holds no accumulator and is printed as null.
C30_AddressedByIndex ==
  Merged =>
    LET calls == Get(ret.v, S_tool_calls).kids
        ds == ToolCallDeltas(parsedChunks)
    IN  /\ Len(calls) = IF PositionsSeen = {} THEN 0
                        ELSE CHOOSE p \in PositionsSeen : \A q \in PositionsSeen : q <= p
        /\ \A p \in 1..Len(calls) :
             IF p \in PositionsSeen
             THEN LET first == Head(DeltasFor(ds, DigitsOfNat(p - 1)))
                      name == Fragment(Get(first, S_function), S_name)
                  IN  /\ calls[p].t = "object"
                      /\ SubSeq(Get(Get(calls[p], S_function), S_name).s, 1, Len(name)) = name
             ELSE /\ calls[p] = JUndefined
                  /\ JsonStringify(JArr(<<calls[p]>>)) = JsonStringify(JArr(<<JNull>>))

C30_Witness ==
  /\ Merged
  /\ parsedChunks = <<K_call1>>
  /\ Len(Get(ret.v, S_tool_calls).kids) = 2
  /\ Get(ret.v, S_tool_calls).kids[1] = JUndefined
  /\ Get(Get(Accumulator(<<"1">>), S_function), S_name) = JStr(<<"g">>)

\* The initial value of the reduction, { content: '', tool_calls: [] }.
EmptyMessage == [ok |-> TRUE, content |-> <<>>, slots |-> <<>>]

\* The message object held by a state of the reduction.
MessageOf(m) ==
  JObj(<<Member(S_content, JStr(m.content)), Member(S_tool_calls, ToolCallsArray(m.slots))>>)

\* The later chunks merged, one reducer step each, into the result of merging the
\* first k chunks.
Resumed(k) ==
  MergeFrom(MergeFrom(EmptyMessage, SubSeq(parsedChunks, 1, k), 1),
            SubSeq(parsedChunks, k + 1, Len(parsedChunks)), 1)

S_tools ==
  <<"t", "o", "o", "l", "s">>

ReqReturned(value, caught) == [outcome |-> "return", value |-> value, caught |-> caught]

\* Mutant: nothing is omitted.
Omit_nothing(v, key) == v

\* lodash omit(v, key) of a parsed JSON value: a new plain object with the value's own
\* enumerable properties except key.
Omit(v, key) ==
  CASE v.t = "object" -> JObj(SelectSeq(v.kids, LAMBDA m : m.s # key))
    [] v.t = "array" -> JObj([n \in 1..Len(v.kids) |-> Member(DigitsOfNat(n - 1), v.kids[n])])
    [] v.t = "string" -> JObj([n \in 1..Len(v.s) |-> Member(DigitsOfNat(n - 1), JStr(<<v.s[n]>>))])
    [] OTHER -> JObj(<<>>)

\* Mutant: each entry is replaced by its function object, not by the name.
ToolNames_functions(tools) ==
  [ok |-> \A n \in 1..Len(tools) : ~IsNullish(tools[n]) /\ ~IsNullish(Get(tools[n], S_function)),
   names |-> [n \in 1..Len(tools) |-> Get(tools[n], S_function)]]

\* tools.map(tool => tool.function.name): ok is FALSE where a read throws a TypeError.
ToolNames(tools) ==
  [ok |-> \A n \in 1..Len(tools) : ~IsNullish(tools[n]) /\ ~IsNullish(Get(tools[n], S_function)),
   names |-> [n \in 1..Len(tools) |-> Get(Get(tools[n], S_function), S_name)]]

\* Lines 76-78, for the parsed body.
FormatToolNames(buf, parsed) ==
  LET tools == IF IsNullish(parsed) THEN JUndefined ELSE Get(parsed, S_tools)
  IN  IF IsNullish(parsed) \/ tools.t # "array" THEN ReqReturned(buf, "TypeError")
      ELSE The({IF ~mapped.ok THEN ReqReturned(buf, "TypeError")
                ELSE ReqReturned(JsonStringify(JObj(ObjSet(parsed.kids, S_tools, JArr(mapped.names)))), "")
                  : mapped \in {ToolNames(tools.kids)}})

\* Mutant: a body that is not JSON is not caught.
formatRequestBody_uncaught(buf, opts) ==
  The({IF ~p.ok THEN [outcome |-> "throw", value |-> <<>>, caught |-> ""]
       ELSE IF opts.tools = "none" THEN ReqReturned(JsonStringify(Omit(p.v, S_tools)), "")
       ELSE IF opts.tools = "name" THEN FormatToolNames(buf, p.v)
       ELSE ReqReturned(JsonStringify(p.v), "")
         : p \in {JsonParse(buf)}})

formatRequestBody(buf, opts) ==
  The({IF ~p.ok THEN ReqReturned(buf, "SyntaxError")
       ELSE IF opts.tools = "none" THEN ReqReturned(JsonStringify(Omit(p.v, S_tools)), "")
       ELSE IF opts.tools = "name" THEN FormatToolNames(buf, p.v)
       ELSE ReqReturned(JsonStringify(p.v), "")
         : p \in {JsonParse(buf)}})

(***************************************************************************)
(* The inputs: request bodies with a model, a stream flag and, between    *)
(* them, no tools key or a tools key holding null, a string, an object or *)
(* an array of up to MaxTools entries; a body that is the JSON null; and  *)
(* bodies that are not JSON.                                               *)
(***************************************************************************)
MaxTools == 2

\* '{"type":"function","function":{"name":"f","parameters":{}}}'
T_functionF ==
  <<"{", "\"", "t", "y", "p", "e", "\"", ":", "\"", "f", "u", "n", "c", "t", "i", "o", "n", "\"",
    ",", "\"", "f", "u", "n", "c", "t", "i", "o", "n", "\"", ":", "{", "\"", "n", "a", "m", "e",
    "\"", ":", "\"", "f", "\"", ",", "\"", "p", "a", "r", "a", "m", "e", "t", "e", "r", "s",
    "\"", ":", "{", "}", "}", "}">>
\* '{"function":{"name":"g"}}'
T_functionG ==
  <<"{", "\"", "f", "u", "n", "c", "t", "i", "o", "n", "\"", ":", "{", "\"", "n", "a", "m", "e",
    "\"", ":", "\"", "g", "\"", "}", "}">>
\* '{"function":{}}'
T_noName ==
  <<"{", "\"", "f", "u", "n", "c", "t", "i", "o", "n", "\"", ":", "{", "}", "}">>
\* '{"name":"h"}'
T_noFunction ==
  <<"{", "\"", "n", "a", "m", "e", "\"", ":", "\"", "h", "\"", "}">>
\* 'null'
V_null ==
  <<"n", "u", "l", "l">>
\* '"x"'
V_string ==
  <<"\"", "x", "\"">>
\* '{"a":[1]}'
V_object ==
  <<"{", "\"", "a", "\"", ":", "[", "1", "]", "}">>
\* '{"model":"m"'
R_head ==
  <<"{", "\"", "m", "o", "d", "e", "l", "\"", ":", "\"", "m", "\"">>
\* ',"tools":'
R_toolsKey ==
  <<",", "\"", "t", "o", "o", "l", "s", "\"", ":">>
\* ',"stream":true}'
R_tail ==
  <<",", "\"", "s", "t", "r", "e", "a", "m", "\"", ":", "t", "r", "u", "e", "}">>
\* 'not json'
R_notJson ==
  <<"n", "o", "t", " ", "j", "s", "o", "n">>
\* '{"model":"m","tools":['
R_truncated ==
  <<"{", "\"", "m", "o", "d", "e", "l", "\"", ":", "\"", "m", "\"", ",", "\"", "t", "o", "o",
    "l", "s", "\"", ":", "[">>

ToolEntries == {T_functionF, T_functionG, T_noName, T_noFunction}

ToolsArrays ==
  {<<"[", "]">>} \cup
  {<<"[">> \o JoinLines(ts, <<",">>) \o <<"]">> :
     ts \in UNION {[1..n -> ToolEntries] : n \in 1..MaxTools}}

ToolsValues == ToolsArrays \cup {V_null, V_string, V_object}

RequestBodies ==
  {R_head \o R_toolsKey \o tv \o R_tail : tv \in ToolsValues}
    \cup {R_head \o R_tail, V_null, R_notJson, R_truncated, <<>>}

ToolsOptions == {"none", "name", "all"}

\* An option that the command line does not give.
Unspecified == "<unspecified>"

\* Mutant: tools defaults to 'all'.
getCliOptions_defaultAll(args) ==
  [raw |-> IF args.raw = Unspecified THEN FALSE ELSE args.raw,
   tools |-> IF args.tools = Unspecified THEN "all" ELSE args.tools]

\* yargs' parse of the command line: raw defaults to false, tools to 'name'.
getCliOptions(args) ==
  [raw |-> IF args.raw = Unspecified THEN FALSE ELSE args.raw,
   tools |-> IF args.tools = Unspecified THEN "name" ELSE args.tools]

NoRequestResult == [outcome |-> "pending", value |-> <<>>, caught |-> ""]

InitRequest ==
  /\ requestData \in RequestBodies
  /\ argv \in [raw : {Unspecified}, tools : {Unspecified} \cup ToolsOptions]
  /\ cliOptions = getCliOptions(argv)
  /\ wire = <<>>
  /\ crashed = FALSE
  /\ res = [contentType |-> HeaderUndefined, transferEncoding |-> HeaderUndefined]
  /\ allResponseChunks = <<>>
  /\ parsedChunks = <<>>
  /\ pc = "ready"
  /\ ret = NoRequestResult

\* The 'end' handler's call formatRequestBody({ requestData, cliOptions }).
CallFormatRequestBody ==
  /\ pc = "ready"
  /\ ret' = formatRequestBody(requestData, cliOptions)
  /\ pc' = "done"
  /\ UNCHANGED <<res, allResponseChunks, requestData, parsedChunks, cliOptions, argv, wire, crashed>>

NextRequest == CallFormatRequestBody

RequestSpec == InitRequest /\ [][NextRequest]_vars

(***************************************************************************)
(* Properties of formatRequestBody.                                       *)
(***************************************************************************)
\* The parsed request body, where the buffer is JSON.
RequestIsJson == JsonParse(requestData).ok

RequestValue == JsonParse(requestData).v

\* C17: formatRequestBody returns the request buffer unchanged, without throwing, for
\* every buffer that fails JSON.parse, whatever the tools option.
C17_RequestFallback ==
  pc = "done" /\ ~RequestIsJson => ret.outcome = "return" /\ ret.value = requestData

C17_Witness ==
  /\ pc = "done"
  /\ requestData = R_truncated
  /\ cliOptions.tools = "none"
  /\ ret.caught = "SyntaxError"
  /\ ret.value = R_truncated

\* The top-level members of an object other than tools.
OtherFields(v) == SelectSeq(v.kids, LAMBDA m : m.s # <<"t", "o", "o", "l", "s">>)

HasToolsKey(v) ==
  v.t = "object" /\ \E n \in 1..Len(v.kids) : v.kids[n].s = <<"t", "o", "o", "l", "s">>

\* The returned text is the 2-space pretty-print of the JSON value it spells.
ReturnedPretty ==
  /\ ret.outcome = "return"
  /\ JsonParse(ret.value).ok
  /\ ret.value = JsonStringify(JsonParse(ret.value).v)

\* C18: with tools 'none', a JSON body with a top-level tools key is printed as
\* pretty JSON with no top-level tools key and every other top-level field unchanged.
C18_ToolsKeyRemoved ==
  pc = "done" /\ cliOptions.tools = "none" /\ RequestIsJson /\ HasToolsKey(RequestValue) =>
    /\ ReturnedPretty
    /\ ~HasToolsKey(JsonParse(ret.value).v)
    /\ JsonParse(ret.value).v = JObj(OtherFields(RequestValue))

C18_Witness ==
  /\ pc = "done"
  /\ cliOptions.tools = "none"
  /\ requestData = R_head \o R_toolsKey \o <<"[">> \o T_functionF \o <<"]">> \o R_tail
  /\ ret.value = JsonStringify(JsonParse(R_head \o R_tail).v)

\* The value of the top-level tools key.
ToolsOf(v) == v.kids[CHOOSE n \in 1..Len(v.kids) : v.kids[n].s = <<"t", "o", "o", "l", "s">>].kids[1]

\* function.name of a tools entry, as a text; absent where the entry has none.
NameOf(tool) ==
  IF tool.t = "object" /\ \E n \in 1..Len(tool.kids) : tool.kids[n].s = S_function
  THEN Get(Get(tool, S_function), S_name)
  ELSE JUndefined

\* tools is an array whose entries all have a function.name.
ToolsAllNamed(v) ==
  /\ HasToolsKey(v)
  /\ ToolsOf(v).t = "array"
  /\ \A n \in 1..Len(ToolsOf(v).kids) : NameOf(ToolsOf(v).kids[n]).t = "string"

\* C19: with tools 'name', a JSON body whose tools is an array of entries each with a
\* function.name is printed with a tools array of the same length whose i-th entry is
\* the i-th function.name, every other field unchanged.
C19_ToolNamesOnly ==
  pc = "done" /\ cliOptions.tools = "name" /\ RequestIsJson /\ ToolsAllNamed(RequestValue) =>
    /\ ReturnedPretty
    /\ LET out == JsonParse(ret.value).v
            tools == ToolsOf(RequestValue).kids
        IN  /\ HasToolsKey(out)
            /\ ToolsOf(out) = JArr([n \in 1..Len(tools) |-> NameOf(tools[n])])
            /\ OtherFields(out) = OtherFields(RequestValue)
            /\ [n \in 1..Len(out.kids) |-> out.kids[n].s]
                 = [n \in 1..Len(RequestValue.kids) |-> RequestValue.kids[n].s]

C19_Witness ==
  /\ pc = "done"
  /\ cliOptions.tools = "name"
  /\ requestData = R_head \o R_toolsKey \o <<"[">> \o T_functionF \o <<",">> \o T_functionG
                     \o <<"]">> \o R_tail
  /\ ToolsOf(JsonParse(ret.value).v) = JArr(<<JStr(<<"f">>), JStr(<<"g">>)>>)

\* C20: with tools 'name', a JSON body whose tools is absent or not an array is still
\* printed as pretty JSON with every other field untouched; it is not returned as the
\* raw buffer.
C20_MissingToolsDefaulted ==
  /\ pc = "done" /\ cliOptions.tools = "name" /\ RequestIsJson
  /\ RequestValue.t = "object"
  /\ (HasToolsKey(RequestValue) => ToolsOf(RequestValue).t # "array")
  =>
    /\ ReturnedPretty
    /\ ret.caught = ""
    /\ OtherFields(JsonParse(ret.value).v) = OtherFields(RequestValue)

MaxExchanges == 2

Exchanges == 1..MaxExchanges

\* The two bytes of U+00E9 in UTF-8, and the characters a decoder makes of them.
Byte_C3 == "<C3>"
Byte_A9 == "<A9>"
Char_E9 == "U+00E9"
Char_FFFD == "U+FFFD"

\* Buffer.prototype.toString() of one chunk: UTF-8 decoding of that chunk alone, a
\* byte that is not part of a complete sequence within the chunk becoming U+FFFD.
RECURSIVE BufferToString(_)
BufferToString(bytes) ==
  LET k == FirstOf(bytes, 1, {Byte_C3, Byte_A9})
      whole == bytes[k] = Byte_C3 /\ k < Len(bytes) /\ bytes[k + 1] = Byte_A9
  IN  IF k = 0 THEN bytes
      ELSE SubSeq(bytes, 1, k - 1)
             \o (IF whole THEN <<Char_E9>> ELSE <<Char_FFFD>>)
             \o BufferToString(SubSeq(bytes, IF whole THEN k + 2 ELSE k + 1, Len(bytes)))

\* parseTargetUrl(req.query.target_url): a URL, undefined for a missing parameter or
\* one that is not a URL, and a URIError out of decodeURIComponent, which is outside
\* the try, for a malformed escape.
parseTargetUrl(param) ==
  CASE param = "http://upstream/" -> [outcome |-> "return", url |-> param]
    [] param = "%" -> [outcome |-> "throw", url |-> HeaderUndefined]
    [] OTHER -> [outcome |-> "return", url |-> HeaderUndefined]

\* '{"a":"' and '"}'
J_open ==
  <<"{", "\"", "a", "\"", ":", "\"">>
J_close ==
  <<"\"", "}">>

\* What the client and the upstream send in an exchange: the target_url parameter,
\* the request body as the chunks it arrives in, and the upstream's status, headers
\* and body chunks.
Script(param, request, status, contentType, transferEncoding, response) ==
  [param |-> param, request |-> request, status |-> status, contentType |-> contentType,
   transferEncoding |-> transferEncoding, response |-> response]

\* A chat completion streamed as two server-sent events, the request in two chunks.
X_streamed ==
  Script("http://upstream/",
         <<R_head \o R_toolsKey \o <<"[">> \o T_functionF, <<"]">> \o R_tail>>,
         "200", "text/event-stream", HeaderUndefined,
         <<F_chunk \o <<"\n">>, F_chunk \o <<"\n">>>>)

\* A JSON body whose one non-ASCII character is split between two chunks.
X_json ==
  Script("http://upstream/", <<R_head \o R_tail>>,
         "200", "application/json", HeaderUndefined,
         <<J_open \o <<Byte_C3>>, <<Byte_A9>> \o J_close>>)

\* A chunked body that begins a data frame it does not finish, with no status code.
X_broken ==
  Script("http://upstream/", <<R_head, R_tail>>,
         HeaderUndefined, HeaderUndefined, "chunked", <<F_badData>>)

X_notUrl == Script("upstream", <<R_notJson>>, "200", HeaderUndefined, HeaderUndefined, <<>>)

X_malformed == Script("%", <<R_notJson>>, "200", HeaderUndefined, HeaderUndefined, <<>>)

Scripts == {X_streamed, X_json, X_broken, X_notUrl, X_malformed}

\* 'Invalid target_url query parameter', 'Error forwarding the request' and the page of
\* Express's default error handler, as bodies.
Body_invalid == <<"Invalid target_url query parameter">>
Body_forwarding == <<"Error forwarding the request">>
Body_errorPage == <<"<pre>URIError</pre>">>

\* The client response before anything is written to it.
NewResponse ==
  [starts |-> <<>>, headersSent |-> FALSE, contentType |-> HeaderUndefined,
   transferEncoding |-> HeaderUndefined, body |-> <<>>, ended |-> FALSE]

\* res.status(code).send(body): the status and the body are sent and the response
\* ends.  On a response whose head is written nothing is sent: setting a header
\* throws ERR_HTTP_HEADERS_SENT.  starts lists the calls made to start the response.
Send(r, code, body) ==
  IF r.headersSent
  THEN [r EXCEPT !.starts = Append(@, code)]
  ELSE [r EXCEPT !.starts = Append(@, code), !.headersSent = TRUE, !.body = body, !.ended = TRUE]

\* res.writeHead(proxyRes.statusCode || 500, proxyRes.headers).
WriteHead(r, script) ==
  [r EXCEPT !.starts = Append(@, IF script.status = HeaderUndefined THEN "500" ELSE script.status),
            !.headersSent = TRUE,
            !.contentType = script.contentType,
            !.transferEncoding = script.transferEncoding]

NewControl == [handler |-> "pending", request |-> "open", response |-> "none", error |-> FALSE]

NewWire(script) ==
  [script |-> script, clientSent |-> 0, upstreamSent |-> 0, toUpstream |-> <<>>,
   upstreamRequests |-> 0]

\* What the callbacks of an exchange have called and logged: the formatter calls with
\* the buffer each was handed, the errors the 'end' handler caught, the number of
\* console.error calls, and the exceptions that left a listener uncaught.
NewLog ==
  [requestCalls |-> <<>>, responseCalls |-> <<>>, caught |-> <<>>, errors |-> 0,
   uncaught |-> <<>>]

InitProxy ==
  /\ argv = [raw |-> Unspecified, tools |-> Unspecified]
  /\ cliOptions = getCliOptions(argv)
  /\ wire \in [Exchanges -> {NewWire(x) : x \in Scripts}]
  /\ res = [e \in Exchanges |-> NewResponse]
  /\ requestData = [e \in Exchanges |-> <<>>]
  /\ allResponseChunks = [e \in Exchanges |-> <<>>]
  /\ pc = [e \in Exchanges |-> NewControl]
  /\ ret = [e \in Exchanges |-> NewLog]
  /\ parsedChunks = <<>>
  /\ crashed = FALSE

\* app.post('/', ...), lines 22-92 up to the first event: the target is parsed; without
\* one the client gets 400 and nothing is proxied (a URIError goes to Express's
\* error handler, which answers 500); with one the upstream request is created, its
\* listeners are attached and requestData starts empty.
PostHandler(e) ==
  /\ ~crashed
  /\ pc[e].handler = "pending"
  /\ LET targetUrl == parseTargetUrl(wire[e].script.param)
     IN  IF targetUrl.outcome = "throw"
         THEN /\ res' = [res EXCEPT ![e] = Send(@, "500", Body_errorPage)]
              /\ pc' = [pc EXCEPT ![e].handler = "rejected"]
              /\ UNCHANGED <<wire, requestData>>
         ELSE IF targetUrl.url = HeaderUndefined
         THEN /\ res' = [res EXCEPT ![e] = Send(@, "400", Body_invalid)]
              /\ pc' = [pc EXCEPT ![e].handler = "rejected"]
              /\ UNCHANGED <<wire, requestData>>
         ELSE /\ wire' = [wire EXCEPT ![e].upstreamRequests = @ + 1]
              /\ requestData' = [requestData EXCEPT ![e] = <<>>]
              /\ pc' = [pc EXCEPT ![e].handler = "proxying"]
              /\ UNCHANGED res
  /\ UNCHANGED <<allResponseChunks, ret, parsedChunks, cliOptions, argv, crashed>>

\* requestPassThrough's 'data' listener and the pipe to proxyReq, for the next chunk
\* of the request body: the chunk is decoded onto requestData and written upstream.
\* An upstream request that failed is unpiped, which pauses the stream.
RequestOnData(e) ==
  /\ ~crashed
  /\ pc[e].handler = "proxying" /\ pc[e].request = "open" /\ ~pc[e].error
  /\ wire[e].clientSent < Len(wire[e].script.request)
  /\ LET chunk == wire[e].script.request[wire[e].clientSent + 1]
     IN  /\ requestData' = [requestData EXCEPT ![e] = @ \o BufferToString(chunk)]
         /\ wire' = [wire EXCEPT ![e].clientSent = @ + 1, ![e].toUpstream = @ \o chunk]
  /\ UNCHANGED <<res, allResponseChunks, pc, ret, parsedChunks, cliOptions, argv, crashed>>

\* The end of the request body: the pipe ends proxyReq.
RequestOnEnd(e) ==
  /\ ~crashed
  /\ pc[e].handler = "proxying" /\ pc[e].request = "open" /\ ~pc[e].error
  /\ wire[e].clientSent = Len(wire[e].script.request)
  /\ pc' = [pc EXCEPT ![e].request = "ended"]
  /\ UNCHANGED <<res, allResponseChunks, requestData, wire, ret, parsedChunks, cliOptions, argv, crashed>>

\* The response callback, lines 40-47 and 77: the upstream's head is written to the
\* client, allResponseChunks starts empty and the pipes are set up.  The upstream
\* answers once it has the request's head, which goes out with the first write to
\* proxyReq or with its end; it need not wait for the whole body.
ProxyResponse(e) ==
  /\ ~crashed
  /\ pc[e].handler = "proxying" /\ pc[e].response = "none" /\ ~pc[e].error
  /\ wire[e].toUpstream # <<>> \/ pc[e].request = "ended"
  /\ res' = [res EXCEPT ![e] = WriteHead(@, wire[e].script)]
  /\ allResponseChunks' = [allResponseChunks EXCEPT ![e] = <<>>]
  /\ pc' = [pc EXCEPT ![e].response = "head"]
  /\ UNCHANGED <<requestData, wire, ret, parsedChunks, cliOptions, argv, crashed>>


\* Mutant: a formatter failure is not caught.
EndHandler_uncaught(e) ==
  The({IF q.outcome = "throw"
       THEN [ret[e] EXCEPT !.requestCalls = Append(@, [buf |-> requestData[e], out |-> q]),
                           !.uncaught = Append(@, q.error)]
       ELSE The({[ret[e] EXCEPT !.requestCalls = Append(@, [buf |-> requestData[e], out |-> q]),
                                !.responseCalls = Append(@, [buf |-> allResponseChunks[e], out |-> p]),
                                !.uncaught = IF p.outcome = "throw" THEN Append(@, p.error) ELSE @]
                   : p \in {formatResponseBody(res[e], allResponseChunks[e], cliOptions)}})
         : q \in {formatRequestBody(requestData[e], cliOptions)}})

\* responsePassThrough's 'end' listener, lines 49-75, as the exchange's log after it:
\* inside one try, the request is formatted and logged and then the response; what
\* either throws is caught and logged after 'Error:'.
EndHandler(e) ==
  The({IF q.outcome = "throw"
       THEN [ret[e] EXCEPT !.requestCalls = Append(@, [buf |-> requestData[e], out |-> q]),
                           !.caught = Append(@, q.error)]
       ELSE The({[ret[e] EXCEPT !.requestCalls = Append(@, [buf |-> requestData[e], out |-> q]),
                                !.responseCalls = Append(@, [buf |-> allResponseChunks[e], out |-> p]),
                                !.caught = IF p.outcome = "throw" THEN Append(@, p.error) ELSE @]
                   : p \in {formatResponseBody(res[e], allResponseChunks[e], cliOptions)}})
         : q \in {formatRequestBody(requestData[e], cliOptions)}})

\* Mutant: the buffers are formatted as each chunk arrives.
ResponseOnData_formats(e) ==
  /\ ~crashed
  /\ pc[e].response = "head" /\ ~pc[e].error
  /\ wire[e].upstreamSent < Len(wire[e].script.response)
  /\ LET chunk == wire[e].script.response[wire[e].upstreamSent + 1]
     IN  /\ allResponseChunks' = [allResponseChunks EXCEPT ![e] = @ \o BufferToString(chunk)]
         /\ res' = [res EXCEPT ![e].body = @ \o chunk]
         /\ wire' = [wire EXCEPT ![e].upstreamSent = @ + 1]
  /\ ret' = [ret EXCEPT ![e] = EndHandler(e)]
  /\ UNCHANGED <<requestData, pc, parsedChunks, cliOptions, argv, crashed>>

\* Mutant: one response buffer for the whole server.
ResponseOnData_shared(e) ==
  /\ ~crashed
  /\ pc[e].response = "head" /\ ~pc[e].error
  /\ wire[e].upstreamSent < Len(wire[e].script.response)
  /\ LET chunk == wire[e].script.response[wire[e].upstreamSent + 1]
     IN  /\ allResponseChunks' = [x \in Exchanges |-> allResponseChunks[x] \o BufferToString(chunk)]
         /\ res' = [res EXCEPT ![e].body = @ \o chunk]
         /\ wire' = [wire EXCEPT ![e].upstreamSent = @ + 1]
  /\ UNCHANGED <<requestData, pc, ret, parsedChunks, cliOptions, argv, crashed>>

\* responsePassThrough's 'data' listener and the pipe to res, for the next chunk of
\* the upstream response: the chunk is decoded onto allResponseChunks and written to
\* the client as it is.
ResponseOnData(e) ==
  /\ ~crashed
  /\ pc[e].response = "head" /\ ~pc[e].error
  /\ wire[e].upstreamSent < Len(wire[e].script.response)
  /\ LET chunk == wire[e].script.response[wire[e].upstreamSent + 1]
     IN  /\ allResponseChunks' = [allResponseChunks EXCEPT ![e] = @ \o BufferToString(chunk)]
         /\ res' = [res EXCEPT ![e].body = @ \o chunk]
         /\ wire' = [wire EXCEPT ![e].upstreamSent = @ + 1]
  /\ UNCHANGED <<requestData, pc, ret, parsedChunks, cliOptions, argv, crashed>>

\* The end of the upstream response: the 'end' listener runs and the pipe ends res.
ResponseOnEnd(e) ==
  /\ ~crashed
  /\ pc[e].response = "head" /\ ~pc[e].error
  /\ wire[e].upstreamSent = Len(wire[e].script.response)
  /\ ret' = [ret EXCEPT ![e] = EndHandler(e)]
  /\ crashed' = (ret'[e].uncaught # <<>>)
  /\ res' = [res EXCEPT ![e].ended = TRUE]
  /\ pc' = [pc EXCEPT ![e].response = "ended"]
  /\ UNCHANGED <<allResponseChunks, requestData, wire, parsedChunks, cliOptions, argv>>

\* Mutant: the 'error' listener logs the request body too.
ProxyReqOnError_formats(e) ==
  /\ ~crashed
  /\ pc[e].handler = "proxying" /\ ~pc[e].error
  /\ ~(pc[e].response = "ended" /\ pc[e].request = "ended")
  /\ res' = [res EXCEPT ![e] = Send(@, "500", Body_forwarding)]
  /\ pc' = [pc EXCEPT ![e].error = TRUE]
  /\ ret' = [ret EXCEPT ![e].errors = @ + 1,
                        ![e].uncaught = IF res[e].headersSent THEN Append(@, "ERR_HTTP_HEADERS_SENT") ELSE @,
                        ![e].requestCalls = Append(@, [buf |-> requestData[e],
                                                       out |-> formatRequestBody(requestData[e], cliOptions)])]
  /\ crashed' = res[e].headersSent
  /\ UNCHANGED <<allResponseChunks, requestData, wire, parsedChunks, cliOptions, argv>>

\* proxyReq's 'error' listener, lines 80-83: the error is logged and the client is sent
\* 500, whatever has been written to it.  The upstream request can fail before the
\* response, during it, and after its end while the request body is still being
\* written; an exception out of the listener is caught by nothing.
ProxyReqOnError(e) ==
  /\ ~crashed
  /\ pc[e].handler = "proxying" /\ ~pc[e].error
  /\ ~(pc[e].response = "ended" /\ pc[e].request = "ended")
  /\ res' = [res EXCEPT ![e] = Send(@, "500", Body_forwarding)]
  /\ pc' = [pc EXCEPT ![e].error = TRUE]
  /\ ret' = [ret EXCEPT ![e].errors = @ + 1,
                        ![e].uncaught = IF res[e].headersSent THEN Append(@, "ERR_HTTP_HEADERS_SENT") ELSE @]
  /\ crashed' = res[e].headersSent
  /\ UNCHANGED <<allResponseChunks, requestData, wire, parsedChunks, cliOptions, argv>>

NextProxy ==
  \E e \in Exchanges :
    \/ PostHandler(e)
    \/ RequestOnData(e)
    \/ RequestOnEnd(e)
    \/ ProxyResponse(e)
    \/ ResponseOnData(e)
    \/ ResponseOnEnd(e)
    \/ ProxyReqOnError(e)

ProxySpec == InitProxy /\ [][NextProxy]_vars


(***************************************************************************)
(* Properties of the POST handler.                                         *)
(***************************************************************************)
\* The first n chunks, each decoded by itself, as one text.
DecodedChunks(chunks, n) == Concat([k \in 1..n |-> BufferToString(chunks[k])])

\* The bytes of the first n chunks.
JoinedChunks(chunks, n) == Concat([k \in 1..n |-> chunks[k]])

\* C22: in every exchange each formatter is called once when the response stream ends
\* and not before: no call is made while response chunks are still to come, the
\* response formatter is handed the buffer holding every response chunk, and that
\* buffer is never appended to after the call.
C22_FormattedOnceAtEnd ==
  \A e \in Exchanges :
    LET calls == IF pc[e].response = "ended" THEN 1 ELSE 0
        response == wire[e].script.response
    IN  /\ Len(ret[e].requestCalls) = calls
        /\ Len(ret[e].responseCalls) = calls
        /\ calls = 1 =>
             /\ wire[e].upstreamSent = Len(response)
             /\ ret[e].responseCalls[1].buf = DecodedChunks(response, Len(response))
             /\ allResponseChunks[e] = ret[e].responseCalls[1].buf

C22_Witness ==
  \E e \in Exchanges :
    /\ wire[e].script = X_streamed
    /\ pc[e].response = "ended"
    /\ Len(ret[e].responseCalls) = 1
    /\ ret[e].responseCalls[1].buf = F_chunk \o <<"\n">> \o F_chunk \o <<"\n">>

C24_BuffersPerExchange ==
  \A e \in Exchanges :
    pc[e].handler = "proxying" =>
      /\ requestData[e] = DecodedChunks(wire[e].script.request, wire[e].clientSent)
      /\ allResponseChunks[e] = DecodedChunks(wire[e].script.response, wire[e].upstreamSent)
      /\ wire[e].script = X_streamed /\ ret[e].responseCalls # <<>> =>
           /\ ret[e].responseCalls[1].out.outcome = "return"
           /\ ret[e].responseCalls[1].out.value =
                PrettyContentOnly(<<"H", "e", "l", "l", "o", "H", "e", "l", "l", "o">>)

C24_Witness ==
  \E a, b \in Exchanges :
    /\ wire[a].script = X_streamed /\ wire[b].script = X_streamed /\ a # b
    /\ pc[a].response = "ended"
    /\ ret[a].responseCalls[1].out.value =
         PrettyContentOnly(<<"H", "e", "l", "l", "o", "H", "e", "l", "l", "o">>)
    /\ pc[b].response = "head"
    /\ allResponseChunks[b] = F_chunk \o <<"\n">>
    /\ requestData[b] = wire[b].script.request[1]

\* C25: the client is sent the upstream's bytes and the upstream the client's, in order
\* and unchanged, and each captured buffer is the text of the forwarded bytes.
C25_ForwardedAndCaptured ==
  \A e \in Exchanges :
    pc[e].handler = "proxying" /\ ~pc[e].error =>
      /\ res[e].body = JoinedChunks(wire[e].script.response, wire[e].upstreamSent)
      /\ wire[e].toUpstream = JoinedChunks(wire[e].script.request, wire[e].clientSent)
      /\ allResponseChunks[e] = BufferToString(res[e].body)
      /\ requestData[e] = BufferToString(wire[e].toUpstream)

\* C26: a formatter failure in the 'end' handler is caught there: nothing is left
\* uncaught by it, so that the process ends only through an 'error' listener; the
\* upstream is asked once; and the exchange has been forwarded whole and its request
\* logged.
C26_FormatterFailureRecovered ==
  /\ crashed => \E x \in Exchanges : pc[x].error /\ ret[x].uncaught = <<"ERR_HTTP_HEADERS_SENT">>
  /\ \A e \in Exchanges :
       ret[e].caught # <<>> =>
         /\ wire[e].upstreamRequests = 1
         /\ res[e].ended
         /\ res[e].body = JoinedChunks(wire[e].script.response, Len(wire[e].script.response))
         /\ Len(ret[e].requestCalls) = 1
         /\ pc[e].error \/ ret[e].uncaught = <<>>

C26_Witness ==
  \E a, b \in Exchanges :
    /\ wire[a].script = X_broken
    /\ ret[a].caught = <<"SyntaxError">>
    /\ ~crashed
    /\ wire[b].script = X_streamed
    /\ pc[b].response = "ended" /\ pc[b].request = "ended"
    /\ ret[b].responseCalls[1].out.outcome = "return"

\* C28: when formatRequestBody is called the request buffer holds the whole request
\* body, and nothing is appended to it afterwards.
C28_RequestCompleteWhenFormatted ==
  \A e \in Exchanges :
    ret[e].requestCalls # <<>> =>
      /\ ret[e].requestCalls[1].buf =
           DecodedChunks(wire[e].script.request, Len(wire[e].script.request))
      /\ requestData[e] = ret[e].requestCalls[1].buf

\* C29: in every exchange at most one call is made to start the client response: the
\* relay of the upstream's head, or a 400 or 500 of the proxy's own, never both.
C29_StartedAtMostOnce ==
  \A e \in Exchanges : Len(res[e].starts) <= 1

====
